---- MODULE Spec2Model ----
(***************************************************************************)
(* Background remover: the Express segmentation engine (processInstant of  *)
(* BackgroundRemover.tsx), the BackgroundRemover component that re-runs it *)
(* on every slider change, and the App that owns the Job: the two-mode App *)
(* with Express and Deep (specification Spec; SpecLive adds that the Deep  *)
(* collaborator settles), and the Deep-only App that validates its files   *)
(* (specification SpecDeepOnly).                                           *)
(*                                                                         *)
(* Numbers.  Channels are bytes 0..255.  feather is stored doubled (the    *)
(* slider moves in steps of 0.5), so feather = 3 stands for 1.5.  The      *)
(* background estimate rSum/4 is kept as rSum, and a distance d as         *)
(* D16 = 16*d*d = (4r-rSum)^2 + (4g-gSum)^2 + (4b-bSum)^2, an integer, so  *)
(* that every comparison and the rounding of the code's IEEE doubles is    *)
(* decided exactly with integers (products that exceed 31 bits are         *)
(* compared in two limbs).                                                 *)
(***************************************************************************)
EXTENDS Integers, Sequences, FiniteSets, TLC

VARIABLES
    removalMode,       \* App: "express" | "deep"
    isProcessing,      \* App
    progress,          \* App
    status,            \* App
    error,             \* App: Null or a message
    selectedFile,      \* App: NoFile or a File
    result,            \* App: NoResult or [originalUrl, resultUrl, name]
    urls,              \* object URLs created so far: urls[n] = [job, revoked (times)]
    deep,              \* the removeBackground calls in flight, each with its closure
    jobs,              \* files submitted so far
    downloaded,        \* the link downloadResult clicked last
    crashed,           \* React unmounted the tree after an error thrown in an effect
    mounted,           \* BackgroundRemover is mounted (canvasRef.current is not null)
    instance,          \* the Job the mounted BackgroundRemover belongs to
    tolerance,         \* BackgroundRemover state
    feather,           \* BackgroundRemover state (doubled)
    originalImageRef,  \* BackgroundRemover ref
    canvas,            \* the canvas element behind canvasRef
    loads,             \* FileReader/Image loads in flight, each with its closure
    lastRun            \* the latest processInstant call: outcome and arguments

appVars == <<removalMode, isProcessing, progress, status, error, selectedFile, result,
             urls, deep, jobs, downloaded, crashed>>

compVars == <<mounted, instance, tolerance, feather, originalImageRef, canvas, loads, lastRun>>

vars == <<appVars, compVars>>

Null == "null"

(***************************************************************************)
(* Bounds and input sets                                                   *)
(***************************************************************************)
MaxPixels == 3

\* R, G, B, A of the pixels images are built from.  Grey 200 is the usual
\* background; (225,200,200) lies at distance 25 from it and comes
\* semi-transparent; (212,216,200) lies at distance exactly 20; black is far.
Palette == { <<200, 200, 200, 255>>,
             <<225, 200, 200, 51>>,
             <<212, 216, 200, 255>>,
             <<0, 0, 0, 255>> }

\* Values of the tolerance slider the model moves to (the slider gives 5..150).
Tolerances == {5, 20, 25, 30, 150}

\* Values of the feather slider, doubled: 0, 0.5, ..., 10.
Feathers == 0..20

\* The slider values the App's specification moves to (the engine's
\* specification moves to all of Tolerances and Feathers).
AppTolerances == {25, 150}

AppFeathers == {0, 2}

(***************************************************************************)
(* Images: what the Image element hands to drawImage, as the RGBA bytes    *)
(* getImageData reads back.  A w*h image has 4*w*h bytes; an image that    *)
(* decodes with no intrinsic size has width or height 0 and no bytes.      *)
(***************************************************************************)
Shapes == { s \in (0..MaxPixels) \X (0..MaxPixels) : s[1] * s[2] <= MaxPixels }

Flat(pix) == [k \in 1..(4 * Len(pix)) |-> pix[((k - 1) \div 4) + 1][((k - 1) % 4) + 1]]

ImagesOf(s) == { [width |-> s[1], height |-> s[2], data |-> Flat(p)] :
                   p \in [1..(s[1] * s[2]) -> Palette] }

Images == UNION { ImagesOf(s) : s \in Shapes }

\* 2x2 images, whose four corners are four different pixels
SquareImages ==
    { [width |-> 2, height |-> 2, data |-> Flat(p)] :
        p \in { << <<200, 200, 200, 255>>, <<225, 200, 200, 51>>,
                   <<212, 216, 200, 255>>, <<0, 0, 0, 255>> >>,
                << <<0, 0, 0, 255>>, <<200, 200, 200, 255>>,
                   <<200, 200, 200, 255>>, <<225, 200, 200, 51>> >>,
                << <<200, 200, 200, 255>>, <<200, 200, 200, 255>>,
                   <<225, 200, 200, 51>>, <<200, 200, 200, 255>> >> } }

(***************************************************************************)
(* Exact arithmetic on products beyond 31 bits: x*y as <<high, low>> in    *)
(* base 2^15 (x, y < 2^20).                                                *)
(***************************************************************************)
Limb == 2^15

Mul2(x, y) ==
    LET x1 == x \div Limb  x0 == x % Limb
        y1 == y \div Limb  y0 == y % Limb
    IN  << x1 * y1 * Limb + x1 * y0 + x0 * y1 + ((x0 * y0) \div Limb),
           (x0 * y0) % Limb >>

LeqPair(p, q) == p[1] < q[1] \/ (p[1] = q[1] /\ p[2] <= q[2])

RECURSIVE IsqrtBetween(_, _, _)
\* the largest s in lo..hi with s*s <= X (X a pair; lo*lo <= X)
IsqrtBetween(lo, hi, X) ==
    IF lo >= hi THEN lo
    ELSE LET mid == (lo + hi + 1) \div 2
         IN  IF LeqPair(Mul2(mid, mid), X)
             THEN IsqrtBetween(mid, hi, X)
             ELSE IsqrtBetween(lo, mid - 1, X)

Isqrt(X) == IsqrtBetween(0, 2^18, X)

(***************************************************************************)
(* processInstant, step 1: the background estimate from the four corners.  *)
(***************************************************************************)
\* corners that take [0,0] once more in place of [w-1,h-1]
CornerIdx_FirstTwice(w, h) == << 0, (w - 1) * 4, ((h - 1) * w) * 4, 0 >>

\* corners: [0,0], [w-1,0], [0,h-1], [w-1,h-1] as idx = (y*w + x)*4
CornerIdx(w, h) == << (0 * w + 0) * 4,
                      (0 * w + (w - 1)) * 4,
                      ((h - 1) * w + 0) * 4,
                      ((h - 1) * w + (w - 1)) * 4 >>

\* rSum, gSum, bSum (channel c = 0, 1, 2); data[idx + c] of the code is
\* data[idx + c + 1] here, sequences being 1-based
ChannelSum(data, w, h, c) ==
    LET ci == CornerIdx(w, h)
    IN  data[ci[1] + c + 1] + data[ci[2] + c + 1] + data[ci[3] + c + 1] + data[ci[4] + c + 1]

\* <<rSum, gSum, bSum>>: the estimate bgR, bgG, bgB is each sum / 4
BgSums(data, w, h) ==
    << ChannelSum(data, w, h, 0), ChannelSum(data, w, h, 1), ChannelSum(data, w, h, 2) >>

(***************************************************************************)
(* processInstant, step 2: distance and alpha of the pixel at byte i       *)
(* (i = 0, 4, 8, ... as in the loop).                                      *)
(***************************************************************************)
Sq(x) == x * x

\* 16 * dist^2
Dist16(data, i, bg) ==
    Sq(4 * data[i + 1] - bg[1]) + Sq(4 * data[i + 2] - bg[2]) + Sq(4 * data[i + 3] - bg[3])

\* mutant: the comparison of line 65 written dist <= tol
WithinTol_Inclusive(d16, tol) == d16 <= 16 * tol * tol

\* dist < tol
WithinTol(d16, tol) == d16 < 16 * tol * tol

\* dist < tol / 1.5
WithinCore(d16, tol) == 9 * d16 < 64 * tol * tol

\* mutant: Math.max(fth, 1) in place of fth || 1
FthOr1_Max(fth) == IF fth < 2 THEN 2 ELSE fth

\* fth || 1, doubled
FthOr1(fth) == IF fth = 0 THEN 2 ELSE fth

\* The byte a Uint8ClampedArray keeps of
\*   Math.max(0, Math.min(255, (dist / tol) * 255 * (1 / (fth || 1)))):
\* the value v = 255*sqrt(d16) / (2*tol*F), F the doubled feather, clamped and
\* rounded to the nearest integer, a tie going to the even one.
\* With S = floor(sqrt(255^2 * d16)) and m = tol*F: n - 1/2 <= v iff (2n-1)*m <= S.
ToUint8Clamped(X, S, m) ==
    LET q == S \div m
        tie == Mul2(S, S) = X /\ S % m = 0 /\ q % 2 = 1
        lower == (q - 1) \div 2
        rounded == IF tie THEN (IF lower % 2 = 0 THEN lower ELSE lower + 1)
                   ELSE (q + 1) \div 2
    IN  IF rounded > 255 THEN 255 ELSE rounded

\* mutant: the ramp multiplied by the feather instead of divided by it
RampAlpha_TimesFeather(d16, tol, fth) ==
    CHOOSE n \in { IF (q + 1) \div 2 > 255 THEN 255 ELSE (q + 1) \div 2 :
                   q \in { (FthOr1(fth) * Isqrt(Mul2(255 * 255, d16))) \div (4 * tol) } } : TRUE

RampAlpha(d16, tol, fth) ==
    CHOOSE n \in UNION { { ToUint8Clamped(X, S, tol * FthOr1(fth)) : S \in {Isqrt(X)} } :
                         X \in {Mul2(255 * 255, d16)} } : TRUE

\* mutant: the branches of the conditional of line 68 exchanged
AlphaAt_Swapped(data, i, bg, tol, fth) ==
    CHOOSE a \in { IF WithinTol(d16, tol)
                   THEN (IF WithinCore(d16, tol) THEN RampAlpha(d16, tol, fth) ELSE 0)
                   ELSE data[i + 4] : d16 \in {Dist16(data, i, bg)} } : TRUE

\* data[i + 3] after the loop body for the pixel at byte i
AlphaAt(data, i, bg, tol, fth) ==
    CHOOSE a \in { IF WithinTol(d16, tol)
                   THEN (IF WithinCore(d16, tol) THEN 0 ELSE RampAlpha(d16, tol, fth))
                   ELSE data[i + 4] : d16 \in {Dist16(data, i, bg)} } : TRUE

\* mutant: the result written to data[i + 2] instead of data[i + 3]
Threshold_WrongByte(data, w, h, tol, fth) ==
    CHOOSE out \in { [k \in 1..Len(data) |->
                        IF k % 4 = 3 THEN AlphaAt(data, k - 3, bg, tol, fth) ELSE data[k]] :
                     bg \in {BgSums(data, w, h)} } : TRUE

\* the loop of lines 54-70 over the whole buffer: only bytes i + 3 are written
Threshold(data, w, h, tol, fth) ==
    CHOOSE out \in { [k \in 1..Len(data) |->
                        IF k % 4 = 0 THEN AlphaAt(data, k - 4, bg, tol, fth) ELSE data[k]] :
                     bg \in {BgSums(data, w, h)} } : TRUE

(***************************************************************************)
(* The canvas: width, height and RGBA bytes; blank = every byte is 0       *)
(* (transparent black), as a canvas is when created and whenever its width *)
(* or height is assigned.                                                  *)
(***************************************************************************)
NewCanvas == [width |-> 300, height |-> 150, blank |-> TRUE, data |-> <<>>]

\* mutant: the dimensions assigned only when they differ, so a canvas of the
\* image's size keeps its bitmap
SetSize_KeepBitmap(cv, w, h) ==
    IF cv.width = w /\ cv.height = h THEN cv
    ELSE [width |-> w, height |-> h, blank |-> TRUE, data |-> <<>>]

\* canvas.width = w; canvas.height = h: assigning a dimension clears the bitmap
SetSize(cv, w, h) == [width |-> w, height |-> h, blank |-> TRUE, data |-> <<>>]

\* the bytes of the canvas bitmap
Pixels(cv) ==
    IF cv.blank THEN [k \in 1..(4 * cv.width * cv.height) |-> 0] ELSE cv.data

\* byte k (1-based) of the canvas bitmap
PixelByte(cv, k) == IF cv.blank THEN 0 ELSE cv.data[k]

\* source-over compositing: byte k of the canvas after the image pixel at the
\* same place is drawn over it
OverByte(src, cv, k) ==
    LET a == 4 * (((k - 1) \div 4) + 1)
        sa == src[a]
        da == PixelByte(cv, a)
        ao == sa + ((da * (255 - sa)) \div 255)
    IN  IF k = a THEN ao
        ELSE IF ao = 0 THEN 0
        ELSE (src[k] * sa * 255 + PixelByte(cv, k) * da * (255 - sa)) \div (ao * 255)

\* ctx.drawImage(img, 0, 0) on a canvas of the image's size; an image of width
\* or height 0 draws nothing
DrawImage(cv, img) ==
    IF img.width = 0 \/ img.height = 0 THEN cv
    ELSE [cv EXCEPT !.blank = FALSE,
                    !.data = [k \in 1..(4 * cv.width * cv.height) |->
                                OverByte(img.data, cv, k)]]

\* ctx.putImageData(imageData, 0, 0)
PutImageData(cv, data) == [cv EXCEPT !.blank = FALSE, !.data = data]

(***************************************************************************)
(* URLs: '' , an object URL (numbered by URL.createObjectURL), or the data *)
(* URL of a canvas (the PNG of the bytes given to putImageData).           *)
(***************************************************************************)
NoPng == [width |-> 0, height |-> 0, data |-> <<>>]

EmptyUrl == [kind |-> "empty", id |-> 0, png |-> NoPng]

BlobUrl(n) == [kind |-> "blob", id |-> n, png |-> NoPng]

\* canvas.toDataURL('image/png')
ToDataURL(cv) ==
    [kind |-> "data", id |-> 0,
     png |-> [width |-> cv.width, height |-> cv.height, data |-> Pixels(cv)]]

(***************************************************************************)
(* processInstant(img, tol, fth) on the canvas cv; hasCanvas says whether  *)
(* canvasRef.current is set.  kind: "nocanvas" (return of line 21), "threw"*)
(* (getImageData of a zero-sized rectangle throws, nothing is published),  *)
(* "ok" (onResult is called with url).                                     *)
(***************************************************************************)
\* lines 30-73 on the canvas as drawn: getImageData, the loop, putImageData,
\* onResult(canvas.toDataURL('image/png'))
MaskDrawn(drawn, tol, fth) ==
    IF drawn.width = 0 \/ drawn.height = 0
    THEN [kind |-> "threw", canvas |-> drawn, url |-> EmptyUrl]
    ELSE CHOOSE r \in { [kind |-> "ok", canvas |-> put, url |-> ToDataURL(put)] :
                        put \in { PutImageData(drawn, d) :
                                  d \in { Threshold(Pixels(drawn), drawn.width,
                                                    drawn.height, tol, fth) } } } : TRUE

\* a processInstant that does not look whether the canvas is still there
ProcessInstant_NoCanvasCheck(hasCanvas, cv, img, tol, fth) ==
    CHOOSE r \in { MaskDrawn(drawn, tol, fth) :
                   drawn \in { DrawImage(SetSize(cv, img.width, img.height), img) } } :
        TRUE

ProcessInstant(hasCanvas, cv, img, tol, fth) ==
    IF ~hasCanvas THEN [kind |-> "nocanvas", canvas |-> cv, url |-> EmptyUrl]
    ELSE CHOOSE r \in { MaskDrawn(drawn, tol, fth) :
                        drawn \in { DrawImage(SetSize(cv, img.width, img.height), img) } } :
             TRUE

(***************************************************************************)
(* Files the user can hand over.  name is a sequence of characters; image  *)
(* is what the browser decodes the file to (decodes = FALSE: the Image     *)
(* element fires error, not load).                                         *)
(***************************************************************************)
NoImage == [width |-> 0, height |-> 0, data |-> <<>>]

PhotoImage == [width |-> 3, height |-> 1,
               data |-> Flat(<< <<200, 200, 200, 255>>, <<225, 200, 200, 51>>,
                                <<200, 200, 200, 255>> >>)]

Files ==
    { [name |-> <<"a", ".", "p">>, type |-> "image/png", size |-> 1000,
       decodes |-> TRUE, image |-> PhotoImage],
      [name |-> <<"i", ".", "s">>, type |-> "image/svg+xml", size |-> 200,
       decodes |-> TRUE, image |-> NoImage],
      [name |-> <<"e">>, type |-> "image/png", size |-> 0,
       decodes |-> FALSE, image |-> NoImage],
      [name |-> <<"n", ".", "t">>, type |-> "text/plain", size |-> 12,
       decodes |-> FALSE, image |-> NoImage] }

NoFile == [name |-> <<>>, type |-> "", size |-> 0, decodes |-> FALSE, image |-> NoImage]

\* the files of the engine's specification: one per image
EngineFiles ==
    { [name |-> <<"a", ".", "p">>, type |-> "image/png", size |-> 1000,
       decodes |-> TRUE, image |-> im] : im \in Images \cup SquareImages }

NoResult == [originalUrl |-> EmptyUrl, resultUrl |-> EmptyUrl, name |-> <<>>]

NoRef == [isNull |-> TRUE, img |-> NoImage]

NoRun == [kind |-> "none", tol |-> 0, fth |-> 0]

NoLink == [href |-> EmptyUrl, download |-> <<>>]

MaxJobs == 2

MaxTotal == 5

\* stage keys are strings, kept as sequences of characters so that the
\* substring test is computed: 'compute' and 'fetch'
KeyCompute == << "c", "o", "m", "p", "u", "t", "e" >>

KeyFetch == << "f", "e", "t", "c", "h" >>

\* the keys the collaborator may report: 'compute', 'fetch:m', 'compute:i'
\* and 'prefetch'
DeepKeys ==
    { KeyCompute, KeyFetch \o << ":", "m" >>, KeyCompute \o << ":", "i" >>,
      << "p", "r", "e" >> \o KeyFetch }

\* what the progress callback reports: current out of total, current running
\* from 0 to one past the total
Totals == {MaxTotal}

Currents == 0..(MaxTotal + 1)

\* a substring test that looks at the start of the string only
Includes_AtStart(s, sub) ==
    Len(sub) <= Len(s) /\ SubSeq(s, 1, Len(sub)) = sub

\* String.prototype.includes
Includes(s, sub) ==
    \E i \in 0..(Len(s) - Len(sub)) : SubSeq(s, i + 1, i + Len(sub)) = sub

\* key.includes('fetch')
IncludesFetch(key) == Includes(key, KeyFetch)

\* the template literal `Processing (${percentage}%)...`
ProcessingStatus(percentage) == "Processing (" \o ToString(percentage) \o "%)..."

\* useState(30), useState(2)
InitTolerance == 30

InitFeather == 2 * 2

RECURSIVE FirstSegment(_)
\* name.split('.')[0]
FirstSegment(name) ==
    IF name = <<>> \/ Head(name) = "." THEN <<>>
    ELSE <<Head(name)>> \o FirstSegment(Tail(name))

\* file.name.split('.')[0] + '_transparent.png'
SuggestedName(file) ==
    FirstSegment(file.name) \o
    <<"_", "t", "r", "a", "n", "s", "p", "a", "r", "e", "n", "t", ".", "p", "n", "g">>

\* URL.createObjectURL: the next URL, owned by job j
CreateObjectURL(us, j) == Append(us, [job |-> j, revoked |-> 0])

\* a revokeObjectURL that releases nothing
RevokeObjectURL_Nothing(us, u) == us

\* URL.revokeObjectURL(u): only an object URL has anything to release
RevokeObjectURL(us, u) ==
    IF u.kind = "blob" THEN [us EXCEPT ![u.id].revoked = @ + 1] ELSE us

\* a Mode Toggle that is rendered whatever the state
ModeToggleShown_Always == TRUE

\* JSX guards of the App
ModeToggleShown == result = NoResult /\ ~isProcessing

\* an upload panel that is rendered whatever the state
UploadPanelShown_Always == TRUE

UploadPanelShown == selectedFile = NoFile /\ ~isProcessing

ResultPanelShown == result # NoResult /\ ~isProcessing

(***************************************************************************)
(* The App: initial state and handlers                                     *)
(***************************************************************************)
Init ==
    /\ removalMode = "express"
    /\ isProcessing = FALSE
    /\ progress = 0
    /\ status = ""
    /\ error = Null
    /\ selectedFile = NoFile
    /\ result = NoResult
    /\ urls = <<>>
    /\ deep = {}
    /\ jobs = 0
    /\ downloaded = NoLink
    /\ crashed = FALSE
    /\ mounted = FALSE
    /\ instance = 0
    /\ tolerance = InitTolerance
    /\ feather = InitFeather
    /\ originalImageRef = NoRef
    /\ canvas = NewCanvas
    /\ loads = {}
    /\ lastRun = NoRun

\* the load the file effect of a freshly mounted BackgroundRemover starts:
\* reader.onload and img.onload close over the mount render, where tolerance
\* and feather are the initial state and onResult spreads the App's result res
StartLoad(file, res, j) ==
    [inst |-> j, stage |-> "reading", file |-> file,
     tol |-> InitTolerance, fth |-> InitFeather, result |-> res]

\* the else branch of handleFileChange / onDrop, and the mount of
\* <BackgroundRemover file={selectedFile} .../> that the next render brings
SubmitExpress(file) ==
    LET res == [originalUrl |-> BlobUrl(Len(urls) + 1), resultUrl |-> EmptyUrl,
                name |-> SuggestedName(file)]
    IN  /\ selectedFile' = file
        /\ urls' = CreateObjectURL(urls, jobs + 1)
        /\ result' = res
        /\ jobs' = jobs + 1
        /\ mounted' = TRUE
        /\ instance' = jobs + 1
        /\ tolerance' = InitTolerance
        /\ feather' = InitFeather
        /\ originalImageRef' = NoRef
        /\ canvas' = NewCanvas
        /\ loads' = loads \cup {StartLoad(file, res, jobs + 1)}
        /\ UNCHANGED <<removalMode, isProcessing, progress, status, error, deep,
                       downloaded, crashed, lastRun>>

\* processFileDeep up to the await of removeBackground
ProcessFileDeep(file) ==
    /\ selectedFile' = file
    /\ isProcessing' = TRUE
    /\ error' = Null
    /\ progress' = 0
    /\ status' = "Initializing Deep AI engine..."
    /\ urls' = CreateObjectURL(urls, jobs + 1)
    /\ deep' = deep \cup {[job |-> jobs + 1, file |-> file,
                            originalUrl |-> BlobUrl(Len(urls) + 1)]}
    /\ jobs' = jobs + 1
    /\ UNCHANGED <<removalMode, result, downloaded, crashed, compVars>>

HandleFileChange(file) ==
    /\ UploadPanelShown
    /\ ~crashed
    /\ jobs < MaxJobs
    /\ IF removalMode = "deep" THEN ProcessFileDeep(file) ELSE SubmitExpress(file)

OnDrop(file) ==
    /\ UploadPanelShown
    /\ ~crashed
    /\ jobs < MaxJobs
    /\ IF removalMode = "deep" THEN ProcessFileDeep(file) ELSE SubmitExpress(file)

\* the percentage cut off below instead of rounded
Percentage_Floor(current, total) == (100 * current) \div total

\* Math.round((current / total) * 100), total > 0
Percentage(current, total) == (200 * current + total) \div (2 * total)

\* the progress callback handed to removeBackground by the call c
DeepProgress(c, key, current, total) ==
    /\ c \in deep
    /\ progress' = Percentage(current, total)
    /\ status' = IF key = KeyCompute THEN "Analyzing complex layers..."
                 ELSE IF IncludesFetch(key) THEN "Downloading Deep AI models..."
                 ELSE ProcessingStatus(Percentage(current, total))
    /\ UNCHANGED <<removalMode, isProcessing, error, selectedFile, result, urls, deep,
                   jobs, downloaded, crashed, compVars>>

\* removeBackground resolves for the call c: the rest of the try block
DeepResolve(c) ==
    /\ c \in deep
    /\ urls' = CreateObjectURL(urls, c.job)
    /\ result' = [originalUrl |-> c.originalUrl, resultUrl |-> BlobUrl(Len(urls) + 1),
                  name |-> SuggestedName(c.file)]
    /\ isProcessing' = FALSE
    /\ deep' = deep \ {c}
    /\ UNCHANGED <<removalMode, progress, status, error, selectedFile, jobs, downloaded,
                   crashed, compVars>>

\* a catch block that publishes the source as a partial result
DeepReject_SurfacesPartial(c) ==
    /\ c \in deep
    /\ error' = "Deep AI failed. The model may be too heavy for your browser."
    /\ result' = [originalUrl |-> c.originalUrl, resultUrl |-> EmptyUrl,
                  name |-> SuggestedName(c.file)]
    /\ isProcessing' = FALSE
    /\ deep' = deep \ {c}
    /\ UNCHANGED <<removalMode, progress, status, selectedFile, urls, jobs,
                   downloaded, crashed, compVars>>

\* a catch block that forgets setIsProcessing(false)
DeepReject_StaysProcessing(c) ==
    /\ c \in deep
    /\ error' = "Deep AI failed. The model may be too heavy for your browser."
    /\ deep' = deep \ {c}
    /\ UNCHANGED <<removalMode, isProcessing, progress, status, selectedFile, result,
                   urls, jobs, downloaded, crashed, compVars>>

\* removeBackground rejects (or throws) for the call c: the catch block
DeepReject(c) ==
    /\ c \in deep
    /\ error' = "Deep AI failed. The model may be too heavy for your browser."
    /\ isProcessing' = FALSE
    /\ deep' = deep \ {c}
    /\ UNCHANGED <<removalMode, progress, status, selectedFile, result, urls, jobs,
                   downloaded, crashed, compVars>>

\* a reset that revokes but forgets to clear result
Reset_KeepsResult ==
    /\ ResultPanelShown
    /\ ~crashed
    /\ urls' = LET once == RevokeObjectURL(urls, result.originalUrl)
               IN  IF result.resultUrl # EmptyUrl
                   THEN RevokeObjectURL(once, result.resultUrl) ELSE once
    /\ error' = Null
    /\ progress' = 0
    /\ status' = ""
    /\ UNCHANGED <<removalMode, isProcessing, selectedFile, result, deep, jobs,
                   downloaded, crashed, compVars>>

\* reset (Start Over, Discard), and the unmount of BackgroundRemover it brings
Reset ==
    /\ ResultPanelShown
    /\ ~crashed
    /\ urls' = LET once == RevokeObjectURL(urls, result.originalUrl)
               IN  IF result.resultUrl # EmptyUrl
                   THEN RevokeObjectURL(once, result.resultUrl) ELSE once
    /\ result' = NoResult
    /\ selectedFile' = NoFile
    /\ error' = Null
    /\ progress' = 0
    /\ status' = ""
    /\ mounted' = FALSE
    /\ tolerance' = InitTolerance
    /\ feather' = InitFeather
    /\ originalImageRef' = NoRef
    /\ canvas' = NewCanvas
    /\ UNCHANGED <<removalMode, isProcessing, deep, jobs, downloaded, crashed,
                   instance, loads, lastRun>>

\* a download that does not look at the result
downloadResult_Unguarded ==
    /\ ResultPanelShown
    /\ ~crashed
    /\ downloaded' = [href |-> result.resultUrl, download |-> result.name]
    /\ UNCHANGED <<removalMode, isProcessing, progress, status, error, selectedFile,
                   result, urls, deep, jobs, crashed, compVars>>

downloadResult ==
    /\ ResultPanelShown
    /\ ~crashed
    /\ downloaded' = IF result = NoResult \/ result.resultUrl = EmptyUrl THEN downloaded
                     ELSE [href |-> result.resultUrl, download |-> result.name]
    /\ UNCHANGED <<removalMode, isProcessing, progress, status, error, selectedFile,
                   result, urls, deep, jobs, crashed, compVars>>

\* the Mode Toggle buttons
SetRemovalMode(mode) ==
    /\ ModeToggleShown
    /\ ~crashed
    /\ mode # removalMode
    /\ removalMode' = mode
    /\ UNCHANGED <<isProcessing, progress, status, error, selectedFile, result, urls,
                   deep, jobs, downloaded, crashed, compVars>>

(***************************************************************************)
(* BackgroundRemover: the file effect's callbacks and the sliders          *)
(***************************************************************************)
\* reader.onload: img.src = e.target.result
ReaderOnload(l) ==
    /\ l \in loads
    /\ l.stage = "reading"
    /\ loads' = (loads \ {l}) \cup {[l EXCEPT !.stage = "decoding"]}
    /\ UNCHANGED <<appVars, mounted, instance, tolerance, feather, originalImageRef,
                   canvas, lastRun>>

\* the Image fires error: no handler is attached
ImgOnerror(l) ==
    /\ l \in loads
    /\ l.stage = "decoding"
    /\ ~l.file.decodes
    /\ loads' = loads \ {l}
    /\ UNCHANGED <<appVars, mounted, instance, tolerance, feather, originalImageRef,
                   canvas, lastRun>>

\* img.onload: originalImageRef.current = img; processInstant(img, tolerance, feather)
\* with the tolerance, feather and onResult of the mount render
ImgOnload(l) ==
    /\ l \in loads
    /\ l.stage = "decoding"
    /\ l.file.decodes
    /\ \E live \in {mounted /\ instance = l.inst} :
       \E run \in {ProcessInstant(live, canvas, l.file.image, l.tol, l.fth)} :
           /\ loads' = loads \ {l}
           /\ originalImageRef' = IF live THEN [isNull |-> FALSE, img |-> l.file.image]
                                  ELSE originalImageRef
           /\ canvas' = run.canvas
           /\ lastRun' = [kind |-> run.kind, tol |-> l.tol, fth |-> l.fth]
           /\ result' = IF run.kind = "ok" THEN [l.result EXCEPT !.resultUrl = run.url]
                        ELSE result
    /\ UNCHANGED <<removalMode, isProcessing, progress, status, error, selectedFile,
                   urls, deep, jobs, downloaded, crashed, mounted, instance, tolerance,
                   feather>>

\* the effect of [tolerance, feather] after a slider moved to (tol, fth); an
\* error thrown in an effect makes React unmount the tree
AdjustEffect(tol, fth) ==
    IF originalImageRef.isNull
    THEN UNCHANGED <<appVars, mounted, instance, originalImageRef, canvas, loads, lastRun>>
    ELSE \E run \in {ProcessInstant(TRUE, canvas, originalImageRef.img, tol, fth)} :
             /\ canvas' = run.canvas
             /\ lastRun' = [kind |-> run.kind, tol |-> tol, fth |-> fth]
             /\ result' = IF run.kind = "ok" THEN [result EXCEPT !.resultUrl = run.url]
                          ELSE result
             /\ crashed' = (run.kind = "threw")
             /\ mounted' = (run.kind # "threw")
             /\ UNCHANGED <<removalMode, isProcessing, progress, status, error,
                            selectedFile, urls, deep, jobs, downloaded, instance,
                            originalImageRef, loads>>

\* the tolerance slider: setTolerance(parseInt(e.target.value))
SetTolerance(t) ==
    /\ mounted
    /\ t # tolerance
    /\ tolerance' = t
    /\ feather' = feather
    /\ AdjustEffect(t, feather)

\* the feather slider: setFeather(parseFloat(e.target.value))
SetFeather(f) ==
    /\ mounted
    /\ f # feather
    /\ feather' = f
    /\ tolerance' = tolerance
    /\ AdjustEffect(tolerance, f)

Next ==
    \/ \E f \in Files : HandleFileChange(f)
    \/ \E f \in Files : OnDrop(f)
    \/ \E c \in deep, k \in DeepKeys, n \in Currents, t \in Totals :
           DeepProgress(c, k, n, t)
    \/ \E c \in deep : DeepResolve(c)
    \/ \E c \in deep : DeepReject(c)
    \/ Reset
    \/ downloadResult
    \/ \E m \in {"express", "deep"} : SetRemovalMode(m)
    \/ \E l \in loads : ReaderOnload(l)
    \/ \E l \in loads : ImgOnerror(l)
    \/ \E l \in loads : ImgOnload(l)
    \/ \E t \in AppTolerances \cup {InitTolerance} : SetTolerance(t)
    \/ \E f \in AppFeathers \cup {InitFeather} : SetFeather(f)

Spec == Init /\ [][Next]_vars

\* the promise returned by removeBackground settles: a call in flight is
\* eventually resolved or rejected, however many progress callbacks come first
DeepSettles == \E c \in deep : DeepResolve(c) \/ DeepReject(c)

SpecLive == Spec /\ WF_vars(DeepSettles)

(***************************************************************************)
(* The Deep-only App: the App without modes and without BackgroundRemover. *)
(* It validates the file, keeps no selectedFile, and shows the upload      *)
(* panel whenever there is no result and nothing is processing.            *)
(***************************************************************************)
\* a limit one byte lower
SizeLimit_OneLess == 15 * 1024 * 1024 - 1

\* 15 * 1024 * 1024
SizeLimit == 15 * 1024 * 1024

\* file.type.startsWith('image/'), for the types of the files below
StartsWithImage(type) == type \in {"image/png", "image/svg+xml"}

\* the files of the Deep-only App: those of Files, one of 15 MiB exactly
\* (15728640 bytes) and one a byte larger
DeepOnlyFiles ==
    Files \cup
    { [name |-> <<"l", ".", "m", ".", "p">>, type |-> "image/png", size |-> 15728640,
       decodes |-> TRUE, image |-> PhotoImage],
      [name |-> <<"b", ".", "p">>, type |-> "image/png", size |-> 15728641,
       decodes |-> TRUE, image |-> PhotoImage] }

\* JSX guards of the Deep-only App
DeepOnlyUploadShown == result = NoResult /\ ~isProcessing

DeepOnlyResultShown == result # NoResult

DeepOnlyInit ==
    /\ removalMode = "deep"
    /\ isProcessing = FALSE
    /\ progress = 0
    /\ status = ""
    /\ error = Null
    /\ selectedFile = NoFile
    /\ result = NoResult
    /\ urls = <<>>
    /\ deep = {}
    /\ jobs = 0
    /\ downloaded = NoLink
    /\ crashed = FALSE
    /\ mounted = FALSE
    /\ instance = 0
    /\ tolerance = InitTolerance
    /\ feather = InitFeather
    /\ originalImageRef = NoRef
    /\ canvas = NewCanvas
    /\ loads = {}
    /\ lastRun = NoRun

\* a processFile that starts without setProgress(0)
ProcessFile_KeepsProgress(file) ==
    IF ~StartsWithImage(file.type) \/ file.size > SizeLimit
    THEN /\ error' = "Please upload a valid image file (PNG, JPG, or WebP)."
         /\ UNCHANGED <<removalMode, isProcessing, progress, status, selectedFile, result,
                        urls, deep, jobs, downloaded, crashed, compVars>>
    ELSE /\ isProcessing' = TRUE
         /\ error' = Null
         /\ status' = "Initializing AI engine..."
         /\ urls' = CreateObjectURL(urls, jobs + 1)
         /\ deep' = deep \cup {[job |-> jobs + 1, file |-> file,
                                 originalUrl |-> BlobUrl(Len(urls) + 1)]}
         /\ jobs' = jobs + 1
         /\ UNCHANGED <<removalMode, progress, selectedFile, result, downloaded, crashed,
                        compVars>>

\* a processFile that starts without setError(null)
ProcessFile_KeepsError(file) ==
    IF ~StartsWithImage(file.type) \/ file.size > SizeLimit
    THEN /\ error' = "Please upload a valid image file (PNG, JPG, or WebP)."
         /\ UNCHANGED <<removalMode, isProcessing, progress, status, selectedFile, result,
                        urls, deep, jobs, downloaded, crashed, compVars>>
    ELSE /\ isProcessing' = TRUE
         /\ progress' = 0
         /\ status' = "Initializing AI engine..."
         /\ urls' = CreateObjectURL(urls, jobs + 1)
         /\ deep' = deep \cup {[job |-> jobs + 1, file |-> file,
                                 originalUrl |-> BlobUrl(Len(urls) + 1)]}
         /\ jobs' = jobs + 1
         /\ UNCHANGED <<removalMode, error, selectedFile, result, downloaded, crashed,
                        compVars>>

\* processFile up to the await of removeBackground
ProcessFile(file) ==
    IF ~StartsWithImage(file.type)
    THEN /\ error' = "Please upload a valid image file (PNG, JPG, or WebP)."
         /\ UNCHANGED <<removalMode, isProcessing, progress, status, selectedFile, result,
                        urls, deep, jobs, downloaded, crashed, compVars>>
    ELSE IF file.size > SizeLimit
    THEN /\ error' = "File is too large. Please use an image smaller than 15MB."
         /\ UNCHANGED <<removalMode, isProcessing, progress, status, selectedFile, result,
                        urls, deep, jobs, downloaded, crashed, compVars>>
    ELSE /\ isProcessing' = TRUE
         /\ error' = Null
         /\ progress' = 0
         /\ status' = "Initializing AI engine..."
         /\ urls' = CreateObjectURL(urls, jobs + 1)
         /\ deep' = deep \cup {[job |-> jobs + 1, file |-> file,
                                 originalUrl |-> BlobUrl(Len(urls) + 1)]}
         /\ jobs' = jobs + 1
         /\ UNCHANGED <<removalMode, selectedFile, result, downloaded, crashed, compVars>>

HandleFileChange_DeepOnly(file) ==
    /\ DeepOnlyUploadShown
    /\ jobs < MaxJobs
    /\ ProcessFile(file)

OnDrop_DeepOnly(file) ==
    /\ DeepOnlyUploadShown
    /\ jobs < MaxJobs
    /\ ProcessFile(file)

\* the progress callback of processFile
Progress_DeepOnly(c, key, current, total) ==
    /\ c \in deep
    /\ progress' = Percentage(current, total)
    /\ status' = IF key = KeyCompute THEN "Analyzing image layers..."
                 ELSE IF IncludesFetch(key) THEN "Downloading AI models..."
                 ELSE ProcessingStatus(Percentage(current, total))
    /\ UNCHANGED <<removalMode, isProcessing, error, selectedFile, result, urls, deep,
                   jobs, downloaded, crashed, compVars>>

\* removeBackground resolves: the rest of processFile's try block
Resolve_DeepOnly(c) ==
    /\ c \in deep
    /\ urls' = CreateObjectURL(urls, c.job)
    /\ result' = [originalUrl |-> c.originalUrl, resultUrl |-> BlobUrl(Len(urls) + 1),
                  name |-> SuggestedName(c.file)]
    /\ isProcessing' = FALSE
    /\ status' = "Success!"
    /\ deep' = deep \ {c}
    /\ UNCHANGED <<removalMode, progress, error, selectedFile, jobs, downloaded,
                   crashed, compVars>>

\* removeBackground rejects: processFile's catch block
Reject_DeepOnly(c) ==
    /\ c \in deep
    /\ error' = "Processing failed. This can happen if the browser runs out of memory or the image is unsupported."
    /\ isProcessing' = FALSE
    /\ deep' = deep \ {c}
    /\ UNCHANGED <<removalMode, progress, status, selectedFile, result, urls, jobs,
                   downloaded, crashed, compVars>>

\* reset of the Deep-only App
Reset_DeepOnly ==
    /\ DeepOnlyResultShown
    /\ urls' = RevokeObjectURL(RevokeObjectURL(urls, result.originalUrl), result.resultUrl)
    /\ result' = NoResult
    /\ error' = Null
    /\ progress' = 0
    /\ status' = ""
    /\ UNCHANGED <<removalMode, isProcessing, selectedFile, deep, jobs, downloaded,
                   crashed, compVars>>

\* downloadResult of the Deep-only App
DownloadResult_DeepOnly ==
    /\ DeepOnlyResultShown
    /\ downloaded' = [href |-> result.resultUrl, download |-> result.name]
    /\ UNCHANGED <<removalMode, isProcessing, progress, status, error, selectedFile,
                   result, urls, deep, jobs, crashed, compVars>>

\* the totals reported to the Deep-only App: those of Totals and 8, where
\* current / total * 100 falls on halves (12.5, 37.5, 62.5)
DeepOnlyTotals == Totals \cup {8}

DeepOnlyNext ==
    \/ \E f \in DeepOnlyFiles : HandleFileChange_DeepOnly(f)
    \/ \E f \in DeepOnlyFiles : OnDrop_DeepOnly(f)
    \/ \E c \in deep, k \in DeepKeys, n \in Currents, t \in DeepOnlyTotals :
           Progress_DeepOnly(c, k, n, t)
    \/ \E c \in deep : Resolve_DeepOnly(c)
    \/ \E c \in deep : Reject_DeepOnly(c)
    \/ Reset_DeepOnly
    \/ DownloadResult_DeepOnly

SpecDeepOnly == DeepOnlyInit /\ [][DeepOnlyNext]_vars

(***************************************************************************)
(* The engine by itself: a BackgroundRemover whose image, any image of     *)
(* Images, is about to load, and whose sliders are moved once it has (the  *)
(* feather slider one step of 0.5 at a time, or from 0 to 1).              *)
(***************************************************************************)
EngineInit ==
    \E f \in EngineFiles :
        LET res == [originalUrl |-> BlobUrl(1), resultUrl |-> EmptyUrl,
                    name |-> SuggestedName(f)]
        IN  /\ removalMode = "express"
            /\ isProcessing = FALSE
            /\ progress = 0
            /\ status = ""
            /\ error = Null
            /\ selectedFile = f
            /\ result = res
            /\ urls = CreateObjectURL(<<>>, 1)
            /\ deep = {}
            /\ jobs = 1
            /\ downloaded = NoLink
            /\ crashed = FALSE
            /\ mounted = TRUE
            /\ instance = 1
            /\ tolerance = InitTolerance
            /\ feather = InitFeather
            /\ originalImageRef = NoRef
            /\ canvas = NewCanvas
            /\ loads = {[StartLoad(f, res, 1) EXCEPT !.stage = "decoding"]}
            /\ lastRun = NoRun

EngineNext ==
    \/ \E l \in loads : ImgOnload(l)
    \/ \E t \in Tolerances : ~originalImageRef.isNull /\ SetTolerance(t)
    \/ \E f \in ({feather - 1, feather + 1} \cup (IF feather = 0 THEN {2} ELSE {}))
                  \cap Feathers :
           ~originalImageRef.isNull /\ SetFeather(f)

SpecEngine == EngineInit /\ [][EngineNext]_vars

(***************************************************************************)
(* Properties of the engine (specification SpecEngine).  Src is the source *)
(* image, Out the published buffer, RunTol and RunFth the arguments of the *)
(* run that published it.                                                  *)
(***************************************************************************)
Ran == lastRun.kind = "ok"

Src == originalImageRef.img

Out == result.resultUrl.png

RunTol == lastRun.tol

RunFth == lastRun.fth

\* the byte offsets i = 0, 4, 8, ... of the pixels of an image
PixelStarts(img) == { 4 * p : p \in 0..(img.width * img.height - 1) }

SrcBg == BgSums(Src.data, Src.width, Src.height)

\* 16 * dist^2 of the source pixel at i
SrcDist16(i) == Dist16(Src.data, i, SrcBg)

\* tolerance/1.5 <= dist < tolerance
InRampZone(i) ==
    /\ SrcDist16(i) < 16 * RunTol * RunTol
    /\ 9 * SrcDist16(i) >= 64 * RunTol * RunTol

\* C1: a pixel whose distance to the background estimate is at least the
\* tolerance keeps its source alpha.
EngineKeepsAlphaOutsideTolerance ==
    Ran => \A i \in PixelStarts(Src) :
               SrcDist16(i) >= 16 * RunTol * RunTol => Out.data[i + 4] = Src.data[i + 4]

\* C1 witness: a semi-transparent pixel exactly at the tolerance kept its
\* alpha while another pixel of the image was made transparent.
EngineKeepsAlphaWitness ==
    /\ Ran
    /\ \E i \in PixelStarts(Src) :
           /\ SrcDist16(i) = 16 * RunTol * RunTol
           /\ Src.data[i + 4] = 51
           /\ Out.data[i + 4] = 51
    /\ \E i \in PixelStarts(Src) : Src.data[i + 4] = 255 /\ Out.data[i + 4] = 0

\* the four corner pixels have the same R, G and B
CornersShareColour ==
    \A c \in 1..3 : \A a, b \in 1..4 :
        Src.data[CornerIdx(Src.width, Src.height)[a] + c] =
        Src.data[CornerIdx(Src.width, Src.height)[b] + c]

\* 9 * (distance of the pixel at i from the colour of the first pixel)^2
NineDistSqFromCorner(i) ==
    9 * (Sq(Src.data[i + 1] - Src.data[1]) + Sq(Src.data[i + 2] - Src.data[2])
         + Sq(Src.data[i + 3] - Src.data[3]))

\* C2: when the four corners share one colour C, every pixel nearer to C than
\* tolerance/1.5 comes out with alpha 0, whatever its source alpha and the
\* feather.
EngineClearsNearBackground ==
    (Ran /\ CornersShareColour) =>
        \A i \in PixelStarts(Src) :
            NineDistSqFromCorner(i) < 4 * RunTol * RunTol => Out.data[i + 4] = 0

\* C2 witness: corners of one colour, and a semi-transparent pixel of another
\* colour within tolerance/1.5 of it was cleared.
EngineClearsNearBackgroundWitness ==
    /\ Ran
    /\ CornersShareColour
    /\ \E i \in PixelStarts(Src) :
           /\ NineDistSqFromCorner(i) > 0
           /\ NineDistSqFromCorner(i) < 4 * RunTol * RunTol
           /\ Src.data[i + 4] = 51
           /\ Out.data[i + 4] = 0

\* C3 (as claimed): no pixel comes out with an alpha above its source alpha.
EngineNeverRaisesAlpha ==
    Ran => \A i \in PixelStarts(Src) : Out.data[i + 4] <= Src.data[i + 4]

\* a step that moves the feather slider up, image and tolerance fixed, with a
\* result published before and after it
FeatherRaised ==
    /\ Ran
    /\ lastRun'.kind = "ok"
    /\ originalImageRef' = originalImageRef
    /\ lastRun'.tol = RunTol
    /\ lastRun'.fth > RunFth

\* C4 (as claimed): raising the feather never lowers the alpha of a pixel of
\* the ramp zone.
EngineFeatherNeverLowersAlpha ==
    [][FeatherRaised =>
         \A i \in PixelStarts(Src) :
             InRampZone(i) => result'.resultUrl.png.data[i + 4] >= Out.data[i + 4]]_vars

\* C4 (amended): raising the feather from a value other than 0 never raises
\* the alpha of a pixel of the ramp zone, and feather 0 gives what feather 1
\* gives.
EngineFeatherNeverRaisesAlpha ==
    [][FeatherRaised =>
         \A i \in PixelStarts(Src) :
             InRampZone(i) =>
                 /\ RunFth # 0 => result'.resultUrl.png.data[i + 4] <= Out.data[i + 4]
                 /\ (RunFth = 0 /\ lastRun'.fth = 2) =>
                        result'.resultUrl.png.data[i + 4] = Out.data[i + 4]]_vars

\* C4 witness: a ramp-zone pixel published at feather 1 with an alpha below
\* 255 and above the one feather 2 gives it.
EngineFeatherWitness ==
    /\ Ran
    /\ RunFth = 2
    /\ \E i \in PixelStarts(Src) :
           /\ InRampZone(i)
           /\ Out.data[i + 4] < 255
           /\ Out.data[i + 4] > AlphaAt(Src.data, i, SrcBg, RunTol, 4)

\* n is v = 255 * dist / (tol * f) clamped to 0..255 and rounded to the
\* nearest integer (a tie to the even one), where 2*f = f2 and
\* X = 255^2 * d16: n - 1/2 <= v <= n + 1/2 reads
\* ((2n-1) * tol * f2)^2 <= X <= ((2n+1) * tol * f2)^2.
IsRoundedRamp(n, d16, tol, f2) ==
    LET X == Mul2(255 * 255, d16)
        lo == Mul2((2 * n - 1) * tol * f2, (2 * n - 1) * tol * f2)
        hi == Mul2((2 * n + 1) * tol * f2, (2 * n + 1) * tol * f2)
    IN  /\ n \in 0..255
        /\ n > 0 => LeqPair(lo, X)
        /\ n < 255 => LeqPair(X, hi)
        /\ (n > 0 /\ lo = X) => n % 2 = 0
        /\ (n < 255 /\ hi = X) => n % 2 = 0

\* C5 (as claimed): in the ramp zone the output alpha is
\* clamp(0, 255, (dist/tolerance) * 255 * (1 / max(feather, 1))), to the
\* nearest integer; feather 0, 0.5 and 1 give the same alpha.
EngineRampDividesByMaxFeather ==
    Ran => \A i \in PixelStarts(Src) :
               InRampZone(i) =>
                   IsRoundedRamp(Out.data[i + 4], SrcDist16(i), RunTol,
                                 IF RunFth < 2 THEN 2 ELSE RunFth)

\* C5 (amended): in the ramp zone the output alpha is
\* clamp(0, 255, (dist/tolerance) * 255 * (1 / f)) rounded to the nearest
\* integer, where f is the feather, or 1 when the feather is 0; so feather 0
\* and 1 give the same alpha, and feather 0.5 gives 255.
EngineRampDividesByFeatherOr1 ==
    Ran => \A i \in PixelStarts(Src) :
               InRampZone(i) =>
                   /\ IsRoundedRamp(Out.data[i + 4], SrcDist16(i), RunTol,
                                    IF RunFth = 0 THEN 2 ELSE RunFth)
                   /\ RunFth = 1 => Out.data[i + 4] = 255

\* C5 witness: a ramp-zone pixel published at feather 0.5 with alpha 255,
\* where dividing by max(feather, 1) gives less.
EngineRampWitness ==
    /\ Ran
    /\ RunFth = 1
    /\ \E i \in PixelStarts(Src) :
           /\ InRampZone(i)
           /\ Out.data[i + 4] = 255
           /\ ~IsRoundedRamp(255, SrcDist16(i), RunTol, 2)

\* C6: the published buffer has the width and height of the source and the
\* R, G and B of every pixel of the source.
EngineKeepsSizeAndColour ==
    Ran => /\ Out.width = Src.width
           /\ Out.height = Src.height
           /\ Len(Out.data) = 4 * Src.width * Src.height
           /\ \A k \in 1..Len(Src.data) : k % 4 # 0 => Out.data[k] = Src.data[k]

\* C6 witness: a buffer of several pixels in which an alpha was rewritten.
EngineKeepsSizeAndColourWitness ==
    /\ Ran
    /\ Src.width * Src.height = MaxPixels
    /\ \E i \in PixelStarts(Src) : Out.data[i + 4] # Src.data[i + 4]

\* C7: the published result is what the engine gives on a new canvas for the
\* source and the parameters of the run, whatever ran before.
EngineRunsIndependently ==
    Ran => result.resultUrl = ProcessInstant(TRUE, NewCanvas, Src, RunTol, RunFth).url

\* C7 witness: a later run, after the sliders were moved away from and back
\* to other values, on a source with a semi-transparent pixel left as it is.
EngineRunsIndependentlyWitness ==
    /\ Ran
    /\ RunTol # InitTolerance
    /\ RunFth # InitFeather
    /\ \E i \in PixelStarts(Src) : Src.data[i + 4] = 51 /\ Out.data[i + 4] = 51

(***************************************************************************)
(* Properties of the App with its BackgroundRemover (specification Spec)   *)
(***************************************************************************)
\* C8 (as claimed): once the image has loaded, the published result is what
\* the engine gives for the original image and the current tolerance and
\* feather, whatever slider changes came before.
ExpressResultIsCurrent ==
    (mounted /\ ~originalImageRef.isNull /\ result.resultUrl.kind = "data") =>
        result.resultUrl = ProcessInstant(TRUE, NewCanvas, Src, tolerance, feather).url

\* C9 (as claimed): an image of width or height 0 handed to the engine ends in
\* an error reported to the App, and nothing is published.
EngineRejectsEmptyImage ==
    (~originalImageRef.isNull /\ (Src.width = 0 \/ Src.height = 0)) =>
        (error # Null /\ result.resultUrl = EmptyUrl)

\* a file the Orchestrator is to accept: not empty, of an image type
IsValidInput(file) == file.size > 0 /\ file.type \in {"image/png", "image/svg+xml"}

\* C10 (as claimed): a zero-byte or non-image file, picked or dropped, leaves
\* an error and the App Idle: not processing, no result, no selected file, no
\* object URL created, no engine started.
InvalidInputIsRejected ==
    [][\A f \in Files :
         (~IsValidInput(f) /\ (HandleFileChange(f) \/ OnDrop(f))) =>
             /\ error' # Null
             /\ isProcessing' = FALSE
             /\ result' = NoResult
             /\ selectedFile' = NoFile
             /\ urls' = urls
             /\ deep' = deep
             /\ loads' = loads]_vars

(***************************************************************************)
(* Properties of the Job and of its handles                                *)
(***************************************************************************)
\* the object URLs the current Job holds: those of the result and those the
\* calls in flight will put into it
HeldUrls == {result.originalUrl, result.resultUrl} \cup { c.originalUrl : c \in deep }

\* C11 (as claimed): every object URL created and not revoked is held by the
\* current Job; once a Job has ended, by reset or by a failure of the Deep
\* engine, all its object URLs have been revoked.
NoHandleOutlivesItsJob ==
    \A n \in DOMAIN urls : urls[n].revoked = 0 => BlobUrl(n) \in HeldUrls
Discards == result # NoResult /\ result' = NoResult

\* C13: a reset leaves the App Idle (no result, no selected file, no error,
\* progress 0, empty status, not processing) with every object URL of the
\* discarded Job revoked.
ResetReturnsToIdle ==
    [][Discards =>
         /\ selectedFile' = NoFile
         /\ error' = Null
         /\ progress' = 0
         /\ status' = ""
         /\ isProcessing' = FALSE
         /\ deep' = {}
         /\ \A n \in DOMAIN urls :
                urls[n].job = urls[result.originalUrl.id].job => urls'[n].revoked = 1]_vars

\* C13 witness: a Succeeded Deep Job was reset, then an Express Job was reset
\* while its image was still loading; the App is Idle and the three object
\* URLs of the two Jobs are revoked.
ResetReturnsToIdleWitness ==
    /\ result = NoResult
    /\ selectedFile = NoFile
    /\ ~isProcessing
    /\ Len(urls) = 3
    /\ \A n \in 1..3 : urls[n].revoked = 1
    /\ urls[2].job = 1
    /\ \E l \in loads : l.inst = 2
\* Failed: an error is set, nothing is processing and there is no result
JobFailed == error # Null /\ ~isProcessing /\ result = NoResult

\* {error && ...} is rendered inside the upload panel only
ErrorShown == UploadPanelShown /\ error # Null

\* C14 (as claimed): in Failed the error is shown to the user, and a reset
\* (result panel) or a new submission (upload panel) is offered.
FailedIsNotStuck ==
    JobFailed => (ErrorShown /\ (ResultPanelShown \/ UploadPanelShown))
\* C15: while a Deep call is in flight no result is held; when it resolves
\* the Job is Succeeded, with a result whose originalUrl is the source's
\* object URL and whose resultUrl is a new one, and no error; when it rejects
\* the Job is Failed, with the fixed message and still no result.
DeepOutcome ==
    [][\A c \in deep :
         /\ result = NoResult
         /\ DeepResolve(c) =>
                /\ ~isProcessing'
                /\ error' = Null
                /\ result'.originalUrl = c.originalUrl
                /\ result'.originalUrl.kind = "blob"
                /\ result'.resultUrl.kind = "blob"
                /\ result'.resultUrl # result'.originalUrl
                /\ urls'[result'.originalUrl.id].revoked = 0
                /\ urls'[result'.resultUrl.id].revoked = 0
         /\ DeepReject(c) =>
                /\ ~isProcessing'
                /\ error' = "Deep AI failed. The model may be too heavy for your browser."
                /\ result' = NoResult]_vars

\* C15 witness: a Deep Job that reported progress has Succeeded.
DeepOutcomeWitness ==
    /\ removalMode = "deep"
    /\ ~isProcessing
    /\ deep = {}
    /\ progress = 40
    /\ result.originalUrl = BlobUrl(1)
    /\ result.resultUrl = BlobUrl(2)
    /\ error = Null
\* C16: a Deep call that ends with an error leaves the Job Failed, with no
\* result and nothing processing, and every step that starts a Deep call
\* starts it at progress 0, whatever the failed Job had reported.
RejectDiscardsProgress ==
    [][/\ (\E c \in deep : c \notin deep' /\ error' # Null) => JobFailed'
       /\ (\E c \in deep' : c \notin deep) =>
              (progress' = 0 /\ result' = NoResult /\ error' = Null)]_vars

\* C16 witness: the Deep-only App is Failed after a call that had reported
\* 40%, the 40 still stored, and offers the upload panel for the next
\* submission.
RejectDiscardsProgressWitness ==
    /\ JobFailed
    /\ progress = 40
    /\ deep = {}
    /\ jobs = 1
    /\ DeepOnlyUploadShown
\* C17: at most one removeBackground call is in flight, and a file is
\* submitted only when the prior Job is gone: no call in flight, nothing
\* processing and no result held.
OneJobAtATime ==
    [][/\ Cardinality(deep') <= 1
       /\ jobs' # jobs => (deep = {} /\ ~isProcessing /\ result = NoResult)]_vars

\* C17 witness: the second Job is Running in the Deep engine after the first,
\* a Succeeded Deep Job, was reset.
OneJobAtATimeWitness ==
    /\ Cardinality(deep) = 1
    /\ isProcessing
    /\ jobs = 2
    /\ Len(urls) = 3
    /\ urls[1].revoked = 1
    /\ urls[2].revoked = 1
\* the mounted BackgroundRemover has loaded its image and has no load pending
ExpressSettled ==
    /\ mounted
    /\ ~originalImageRef.isNull
    /\ \A l \in loads : l.inst # instance

\* C18 (as claimed): once the image has loaded and nothing is pending, the
\* result on display was computed with the tolerance and feather the sliders
\* show.
LatestParametersWin ==
    (ExpressSettled /\ Ran) => (RunTol = tolerance /\ RunFth = feather)
\* C19: while a Job is Running or Succeeded (something is processing or a
\* result is held) error is null: no error of an earlier submission is still
\* set.
ErrorsDoNotCarryOver ==
    (isProcessing \/ result # NoResult) => error = Null

\* C19 witness: the second Job is Running with no error, after the first Job
\* failed (its source URL is the only one it created and was never revoked).
ErrorsDoNotCarryOverWitness ==
    /\ isProcessing
    /\ error = Null
    /\ jobs = 2
    /\ Len(urls) = 2
    /\ urls[1].job = 1
    /\ urls[1].revoked = 0
    /\ urls[2].job = 2
\* C20 (as claimed): an Express Job whose load is over and that has no
\* result has reported an error; it does not stay with an empty result and
\* no error.
ExpressFailureIsReported ==
    (/\ mounted
     /\ result # NoResult
     /\ result.resultUrl = EmptyUrl
     /\ \A l \in loads : l.inst # instance) => error # Null

(***************************************************************************)
(* Further properties of the engine (specification SpecEngine)             *)
(***************************************************************************)
\* channel c (1 = R, 2 = G, 3 = B) of the source pixel in column x, row y
SrcChannel(x, y, c) == Src.data[4 * (y * Src.width + x) + c]

\* four times the arithmetic mean of channel c over the pixels at (0,0),
\* (w-1,0), (0,h-1) and (w-1,h-1)
CornerMean4(c) ==
    SrcChannel(0, 0, c) + SrcChannel(Src.width - 1, 0, c)
    + SrcChannel(0, Src.height - 1, c) + SrcChannel(Src.width - 1, Src.height - 1, c)

\* C21: the four corner indices lie inside the pixel buffer, the background
\* estimate is per channel the mean of R, G, B of the four corner pixels,
\* alpha left out, and the published alphas are those this estimate gives.
EngineBackgroundIsCornerMean ==
    Ran =>
        /\ \A k \in 1..4 : CornerIdx(Src.width, Src.height)[k] \in PixelStarts(Src)
        /\ SrcBg = << CornerMean4(1), CornerMean4(2), CornerMean4(3) >>
        /\ \A i \in PixelStarts(Src) :
               Out.data[i + 4] =
                   AlphaAt(Src.data, i, << CornerMean4(1), CornerMean4(2), CornerMean4(3) >>,
                           RunTol, RunFth)

\* C21 witness: a run on a 2x2 image with four different corner pixels, one
\* of them semi-transparent: the estimate is (159.25, 154, 150).
EngineBackgroundWitness ==
    /\ Ran
    /\ Src.width = 2
    /\ Src.height = 2
    /\ SrcChannel(0, 0, 1) = 200
    /\ SrcChannel(1, 0, 1) = 225
    /\ SrcChannel(0, 1, 1) = 212
    /\ SrcChannel(1, 1, 1) = 0
    /\ Src.data[8] = 51
    /\ SrcBg = <<637, 616, 600>>

(***************************************************************************)
(* Further properties of the Apps                                          *)
(***************************************************************************)
\* C22: in the Deep-only App an image file of more than 15*1024*1024 bytes,
\* picked or dropped, leaves the too-large error and starts nothing (not
\* processing, no object URL, no removeBackground call, no result); an image
\* file of exactly 15*1024*1024 bytes is accepted and starts processing.
SizeLimitIsEnforced ==
    [][\A f \in DeepOnlyFiles :
         (/\ f.type \in {"image/png", "image/svg+xml"}
          /\ HandleFileChange_DeepOnly(f) \/ OnDrop_DeepOnly(f)) =>
             /\ f.size > 15728640 =>
                    /\ error' = "File is too large. Please use an image smaller than 15MB."
                    /\ isProcessing' = FALSE
                    /\ urls' = urls
                    /\ deep' = deep
                    /\ result' = NoResult
             /\ f.size = 15728640 =>
                    /\ error' = Null
                    /\ isProcessing' = TRUE
                    /\ Len(urls') = Len(urls) + 1
                    /\ \E c \in deep' : c \notin deep /\ c.file = f]_vars

\* C22 witness: the first file handed over was rejected as too large: the
\* error is set and nothing was started.
SizeLimitWitness ==
    /\ error = "File is too large. Please use an image smaller than 15MB."
    /\ ~isProcessing
    /\ urls = <<>>
    /\ deep = {}
    /\ jobs = 0

\* C23: each progress callback (key, current, total) stores
\* round(current / total * 100), the integer nearest to the quotient with
\* halves going up, whatever progress was stored before.
ProgressIsLatestPercentage ==
    [][\A c \in deep, k \in DeepKeys, n \in Currents, t \in DeepOnlyTotals :
         (DeepProgress(c, k, n, t) \/ Progress_DeepOnly(c, k, n, t)) =>
             /\ 2 * t * progress' - t <= 200 * n
             /\ 200 * n < 2 * t * progress' + t]_vars

\* C23 witness: a callback with current/total = 1/8 (12.5 per cent) left 13
\* as the progress of the running Job.
ProgressIsLatestWitness ==
    /\ isProcessing
    /\ deep # {}
    /\ progress = 13

\* C24: progress is an integer from 0 to 100 in every reachable state.
ProgressInRange == progress \in 0..100

DotsOf(name) == {i \in 1..Len(name) : name[i] = "."}

\* a file name with only its final extension removed
Basename(name) ==
    IF DotsOf(name) = {} THEN name
    ELSE SubSeq(name, 1, (CHOOSE i \in DotsOf(name) : \A j \in DotsOf(name) : j <= i) - 1)

\* C26: the name suggested for the result of a Deep Job is the basename of
\* the submitted file, its final extension removed and nothing else, followed
\* by "_transparent.png".
SuggestedNameIsBasename ==
    [][\A c \in deep :
         (DeepResolve(c) \/ Resolve_DeepOnly(c)) =>
             result'.name =
                 Basename(c.file.name) \o
                 << "_", "t", "r", "a", "n", "s", "p", "a", "r", "e", "n", "t",
                    ".", "p", "n", "g" >>]_vars

\* C27: the load of an Express Job that was reset before it completed
\* publishes nothing: processInstant returns for lack of a canvas, result and
\* the object URLs stay as they are, and a null result with no Deep call in
\* flight stays null until a file is submitted.
LateLoadPublishesNothing ==
    [][/\ \A l \in loads :
              (ImgOnload(l) /\ (~mounted \/ instance # l.inst)) =>
                  /\ lastRun'.kind = "nocanvas"
                  /\ result' = result
                  /\ urls' = urls
       /\ (result = NoResult /\ deep = {} /\ result' # NoResult) =>
              jobs' = jobs + 1]_vars

\* C27 witness: in Express mode the only Job was reset while its image was
\* loading; the load has completed since, processInstant returned for lack
\* of a canvas and result is still null.
LateLoadWitness ==
    /\ removalMode = "express"
    /\ jobs = 1
    /\ ~mounted
    /\ loads = {}
    /\ lastRun.kind = "nocanvas"
    /\ result = NoResult
    /\ selectedFile = NoFile

\* C28: a download is triggered only for a result that is not null and has a
\* non-empty resultUrl, and it delivers that URL under the result's name.
DownloadNeedsArtifact ==
    [][downloaded' # downloaded =>
           /\ result # NoResult
           /\ result.resultUrl # EmptyUrl
           /\ downloaded' = [href |-> result.resultUrl, download |-> result.name]]_vars

\* C28 witness: the engine's output of an Express Job has been downloaded.
DownloadNeedsArtifactWitness ==
    /\ removalMode = "express"
    /\ mounted
    /\ result.resultUrl # EmptyUrl
    /\ downloaded = [href |-> result.resultUrl, download |-> result.name]

\* C29: removalMode changes only while result is null and nothing is
\* processing, so never under a Running or Succeeded Job.
ModeOfLiveJobIsFixed ==
    [][removalMode' # removalMode => (result = NoResult /\ ~isProcessing)]_vars

\* C29 witness: the mode was switched away from the initial one and back
\* between Jobs, and the second Job is live in the mode it was submitted in.
ModeOfLiveJobWitness ==
    /\ jobs = 2
    /\ removalMode = "express"
    /\ result # NoResult
    /\ Len(urls) = 3
    /\ urls[2].job = 1

\* C30: isProcessing becomes true only when a file is submitted in Deep
\* mode, the resolve path and the reject path both set it back to false, it
\* is never true while an Express Job exists, and once the collaborator
\* settles every Running Job ends Succeeded (a result) or Failed (an error).
RunningAlwaysEnds ==
    /\ [][(~isProcessing /\ isProcessing') =>
              (removalMode = "deep" /\ jobs' = jobs + 1)]_vars
    /\ [][\A c \in deep : (DeepResolve(c) \/ DeepReject(c)) => ~isProcessing']_vars
    /\ [][isProcessing' => (removalMode' = "deep" /\ ~mounted' /\ result' = NoResult)]_vars
    /\ isProcessing ~> (~isProcessing /\ (result # NoResult \/ error # Null))

\* C30 witness: a Deep Job that was Running, its last callback reporting
\* the compute stage at 100 per cent, has ended Succeeded.
RunningAlwaysEndsWitness ==
    /\ removalMode = "deep"
    /\ jobs = 1
    /\ ~isProcessing
    /\ deep = {}
    /\ result # NoResult
    /\ progress = 100
    /\ status = "Analyzing complex layers..."

====
